---------------------------- MODULE Spec2Model ----------------------------
(***************************************************************************)
(* Content-diversity and topic-selection subsystem of the "sora" app:      *)
(* keyword extraction, Jaccard topic similarity, the GeneratedContent      *)
(* history, the diversity engine, the smart topic selector and the         *)
(* enhanced duplicate detector.                                            *)
(*                                                                         *)
(* A text is the sequence of its whitespace-separated chunks, spelled as   *)
(* in the source.  A number is an exact fraction [n, d] with d > 0.        *)
(* A history record keeps its age in whole days (now - generated_at): the  *)
(* code only ever compares generated_at with now - N days.                 *)
(***************************************************************************)
EXTENDS Integers, Sequences, FiniteSets, TLC

VARIABLES history, last, topicA, topicB

vars == <<history, last, topicA, topicB>>

-----------------------------------------------------------------------------
(* Bounds *)

MaxLen == 2        \* longest text drawn for the pure similarity function
MaxHist == 3       \* most GeneratedContent records in the history
MaxAge == 31       \* ages are capped here, beyond every look-back window

-----------------------------------------------------------------------------
(* Exact fractions *)

Frac(n, d) == [n |-> n, d |-> d]
Zero == Frac(0, 1)
One == Frac(1, 1)
FracLT(x, y) == x.n * y.d < y.n * x.d
FracLE(x, y) == x.n * y.d <= y.n * x.d
FracGT(x, y) == FracLT(y, x)
FracGE(x, y) == FracLE(y, x)
FracEQ(x, y) == x.n * y.d = y.n * x.d
FracAdd(x, y) == Frac(x.n * y.d + y.n * x.d, x.d * y.d)
FracSub(x, y) == Frac(x.n * y.d - y.n * x.d, x.d * y.d)
FracHalf(x) == Frac(x.n, 2 * x.d)
FracMax(x, y) == IF FracGE(x, y) THEN x ELSE y
FracMin(x, y) == IF FracLE(x, y) THEN x ELSE y

\* max(values, default=default)
MaxOver(S, default) ==
    IF S = {} THEN default
    ELSE CHOOSE y \in S : \A z \in S : FracGE(y, z)

Range(s) == {s[i] : i \in 1..Len(s)}

-----------------------------------------------------------------------------
(* Keyword extraction and topic similarity (diversity_engine.py) *)

\* str.lower() on the words of the modelled texts
Lower(w) ==
    CASE w = "Lemon" -> "lemon"
      [] w = "Start" -> "start"
      [] w = "Stay" -> "stay"
      [] w = "Take" -> "take"
      [] w = "Drink" -> "drink"
      [] w = "Warm" -> "warm"
      [] w = "Try" -> "try"
      [] w = "Hydration" -> "hydration"
      [] w = "Biohacking" -> "biohacking"
      [] w = "Balance" -> "balance"
      [] w = "Advanced" -> "advanced"
      [] w = "Immune" -> "immune"
      [] w = "General" -> "general"
      [] OTHER -> w

\* re.findall(r'\b\w+\b', chunk): the runs of word characters of one chunk
WordRuns(chunk) ==
    CASE chunk = "10-minute" -> <<"10", "minute">>
      [] chunk = "-" -> <<>>
      [] OTHER -> <<chunk>>

RECURSIVE FindAllWords(_)
FindAllWords(text) ==
    IF text = <<>> THEN <<>>
    ELSE WordRuns(Lower(Head(text))) \o FindAllWords(Tail(text))

stop_words ==
    {"the", "a", "an", "and", "or", "but", "in", "on", "at", "to", "for",
     "of", "with", "by", "is", "are", "was", "were", "be", "been", "have",
     "has", "had", "do", "does", "did", "will", "would", "could", "should",
     "may", "might", "can", "this", "that", "these", "those", "i", "you",
     "he", "she", "it", "we", "they", "me", "him", "her", "us", "them"}

IsKeyword(word) == word \notin stop_words /\ Len(word) > 2

extract_topic_keywords(topic) == SelectSeq(FindAllWords(topic), IsKeyword)

JaccardOverFirst(keywords1, keywords2) ==
    Frac(Cardinality(keywords1 \cap keywords2), Cardinality(keywords1))

JaccardOverSum(keywords1, keywords2) ==
    Frac(Cardinality(keywords1 \cap keywords2),
         Cardinality(keywords1) + Cardinality(keywords2))

Jaccard(keywords1, keywords2) ==
    Frac(Cardinality(keywords1 \cap keywords2),
         Cardinality(keywords1 \cup keywords2))

similarity_by_list_lengths(topic1, topic2) ==
    LET list1 == extract_topic_keywords(topic1)
        list2 == extract_topic_keywords(topic2)
        intersection == Cardinality(Range(list1) \cap Range(list2))
    IN  IF list1 = <<>> \/ list2 = <<>> THEN Zero
        ELSE Frac(intersection, Len(list1) + Len(list2) - intersection)

calculate_topic_similarity(topic1, topic2) ==
    LET keywords1 == Range(extract_topic_keywords(topic1))
        keywords2 == Range(extract_topic_keywords(topic2))
    IN  IF keywords1 = {} \/ keywords2 = {} THEN Zero
        ELSE Jaccard(keywords1, keywords2)

-----------------------------------------------------------------------------
(* The pure similarity function over all short texts *)

Vocabulary == {"Lemon", "lemon", "water", "walk", "the", "go"}

TextsUpTo(n) == UNION {[1..k -> Vocabulary] : k \in 0..n}

NoCall == [op |-> "none"]

InitSimilarity ==
    /\ history = <<>>
    /\ last = NoCall
    /\ topicA \in TextsUpTo(MaxLen)
    /\ topicB \in TextsUpTo(MaxLen)

CalculateTopicSimilarity ==
    /\ last = NoCall
    /\ last' = [op |-> "calculate_topic_similarity",
                topic1 |-> topicA, topic2 |-> topicB,
                result |-> calculate_topic_similarity(topicA, topicB)]
    /\ UNCHANGED <<history, topicA, topicB>>

NextSimilarity == CalculateTopicSimilarity

SpecSimilarity == InitSimilarity /\ [][NextSimilarity]_vars

-----------------------------------------------------------------------------
(* Texts of the modelled catalog excerpt, tracked titles and candidates *)

WarmLemonWater ==
    <<"Start", "your", "morning", "with", "a", "glass", "of", "warm",
      "lemon", "water">>
HerbalTea == <<"Drink", "herbal", "tea", "instead", "of", "sugary", "beverages">>
HydrationTiming == <<"Hydration", "timing", "for", "optimal", "performance">>
BiohackingNutrition == <<"Biohacking", "nutrition", "for", "longevity">>
WalkAfterMeal ==
    <<"Take", "a", "10-minute", "walk", "after", "every", "meal">>
BalanceTraining == <<"Balance", "and", "coordination", "training">>
StrengthTraining == <<"Advanced", "strength", "training", "techniques">>
StayHydrated == <<"Stay", "hydrated", "throughout", "the", "day">>
ImmuneOptimization == <<"Immune", "system", "optimization", "strategies">>
ImmuneScience == <<"Advanced", "immune", "system", "science">>
ImmuneProtocols == <<"Advanced", "immune", "protocols">>

FallbackTopic == <<"General", "health", "and", "wellness", "tips">>

\* candidate texts handed to the detector by the content pipeline
LemonWaterMorning == <<"Warm", "lemon", "water", "for", "your", "morning">>
LemonWaterRecipe ==
    <<"Warm", "lemon", "water", "recipe", "boosts", "digestion">>
StayHydratedDaily == <<"Stay", "hydrated", "daily">>
StayHydratedSummer == <<"Stay", "hydrated", "every", "summer">>
EveningWalk == <<"Try", "a", "10", "minute", "evening", "walk">>

-----------------------------------------------------------------------------
(* TopicDiversityEngine.HEALTH_CATEGORIES and TopicBank.TOPIC_DATABASE,    *)
(* restricted to three of the ten categories and a few topics per bucket   *)

HEALTH_CATEGORIES ==
    [c \in {"Nutrition", "Fitness", "Immune System"} |->
        CASE c = "Nutrition" -> [weight |-> 8]
          [] c = "Fitness" -> [weight |-> 7]
          [] c = "Immune System" -> [weight |-> 5]]

difficulty_levels == <<"beginner", "intermediate", "advanced">>

TOPIC_DATABASE ==
    [c \in {"Nutrition", "Fitness", "Immune System"} |->
        CASE c = "Nutrition" ->
                [beginner |-> <<WarmLemonWater, HerbalTea>>,
                 intermediate |-> <<HydrationTiming>>,
                 advanced |-> <<BiohackingNutrition>>]
          [] c = "Fitness" ->
                [beginner |-> <<WalkAfterMeal>>,
                 intermediate |-> <<BalanceTraining>>,
                 advanced |-> <<StrengthTraining>>]
          [] c = "Immune System" ->
                [beginner |-> <<StayHydrated>>,
                 intermediate |-> <<ImmuneOptimization, ImmuneScience>>,
                 advanced |-> <<ImmuneScience, ImmuneProtocols>>]]

None == "None"

\* Python truthiness of an optional string argument
Truthy(s) == s # None /\ s # ""

RECURSIVE Flatten(_)
Flatten(seqs) ==
    IF seqs = <<>> THEN <<>> ELSE Head(seqs) \o Flatten(Tail(seqs))

get_topics_by_category(category, difficulty) ==
    IF category \notin DOMAIN TOPIC_DATABASE THEN <<>>
    ELSE LET category_topics == TOPIC_DATABASE[category]
         IN  IF Truthy(difficulty) /\ difficulty \in DOMAIN category_topics
             THEN category_topics[difficulty]
             ELSE Flatten([i \in 1..Len(difficulty_levels) |->
                              category_topics[difficulty_levels[i]]])

-----------------------------------------------------------------------------
(* GeneratedContent history (models.py) *)

\* content packages the pipeline tracks: blog_post title and category
Package(title, category) == [title |-> title, category |-> category]

Packages ==
    {Package(WarmLemonWater, "Nutrition"),
     Package(StayHydrated, "Immune System"),
     Package(WalkAfterMeal, "Fitness")}

TickDays == {7, 31}

get_recent_content(days) == SelectSeq(history, LAMBDA r : r.age <= days)

get_category_usage(category, days) ==
    Len(SelectSeq(get_recent_content(days), LAMBDA r : r.category = category))

\* GeneratedContent.objects.create in track_generated_content: the record's
\* topic is the blog title, and its keywords are cached at creation
GeneratedContent_create(p) ==
    [title |-> p.title,
     topic |-> p.title,
     category |-> p.category,
     age |-> 0,
     topic_keywords |-> extract_topic_keywords(p.title)]

track_generated_content(p) ==
    /\ Len(history) < MaxHist
    /\ history' = Append(history, GeneratedContent_create(p))
    /\ last' = NoCall
    /\ UNCHANGED <<topicA, topicB>>

\* d days pass: timezone.now() moves on, generated_at never changes
Tick(d) ==
    /\ \E i \in 1..Len(history) : history[i].age < MaxAge
    /\ history' = [i \in 1..Len(history) |->
                     [history[i] EXCEPT
                        !.age = IF @ + d > MaxAge THEN MaxAge ELSE @ + d]]
    /\ last' = NoCall
    /\ UNCHANGED <<topicA, topicB>>

InitHistory ==
    /\ history = <<>>
    /\ last = NoCall
    /\ topicA = <<>>
    /\ topicB = <<>>

-----------------------------------------------------------------------------
(* EnhancedDuplicateDetector (enhanced_duplicate_detection.py) *)

similarity_threshold == Frac(4, 10)
title_threshold == Frac(3, 10)
diverse_threshold == Frac(6, 10)

category_repetition_by_count_only(category, recent_content) ==
    IF ~Truthy(category)
    THEN [is_repetitive |-> FALSE, recent_usage |-> 0, very_recent_usage |-> 0]
    ELSE LET recent_usage ==
                 Len(SelectSeq(recent_content, LAMBDA r : r.category = category))
         IN  [is_repetitive |-> recent_usage > 2,
              recent_usage |-> recent_usage,
              very_recent_usage |-> 0]

category_repetition_within_two_days(category, recent_content) ==
    IF ~Truthy(category)
    THEN [is_repetitive |-> FALSE, recent_usage |-> 0, very_recent_usage |-> 0]
    ELSE LET recent_usage ==
                 Len(SelectSeq(recent_content, LAMBDA r : r.category = category))
             very_recent_usage ==
                 Len(SelectSeq(recent_content,
                            LAMBDA r : r.category = category /\ r.age <= 2))
         IN  [is_repetitive |-> very_recent_usage > 0 \/ recent_usage > 2,
              recent_usage |-> recent_usage,
              very_recent_usage |-> very_recent_usage]

_check_category_repetition(category, recent_content) ==
    IF ~Truthy(category)
    THEN [is_repetitive |-> FALSE, recent_usage |-> 0, very_recent_usage |-> 0]
    ELSE LET recent_usage ==
                 Len(SelectSeq(recent_content, LAMBDA r : r.category = category))
             very_recent_usage ==
                 Len(SelectSeq(recent_content,
                            LAMBDA r : r.category = category /\ r.age <= 3))
         IN  [is_repetitive |-> very_recent_usage > 0 \/ recent_usage > 2,
              recent_usage |-> recent_usage,
              very_recent_usage |-> very_recent_usage]

keyword_repetition_from_first_use(topic, recent_content) ==
    LET topic_keywords == Range(extract_topic_keywords(topic))
        keyword_usage(keyword) ==
            Len(SelectSeq(recent_content,
                       LAMBDA r : keyword \in Range(r.topic_keywords)))
        overused_keywords == {k \in topic_keywords : keyword_usage(k) > 0}
    IN  [is_repetitive |-> overused_keywords # {},
         repeated_keywords |-> overused_keywords]

_check_keyword_repetition(topic, recent_content) ==
    LET topic_keywords == Range(extract_topic_keywords(topic))
        keyword_usage(keyword) ==
            Len(SelectSeq(recent_content,
                       LAMBDA r : keyword \in Range(r.topic_keywords)))
        overused_keywords == {k \in topic_keywords : keyword_usage(k) > 2}
    IN  IF topic_keywords = {}
        THEN [is_repetitive |-> FALSE, repeated_keywords |-> {}]
        ELSE [is_repetitive |-> overused_keywords # {},
              repeated_keywords |-> overused_keywords]

\* the two matching loops: indices of the records whose title (topic)
\* similarity to the candidate exceeds the threshold
title_matches(title, recent_content) ==
    {i \in 1..Len(recent_content) :
        FracGT(calculate_topic_similarity(title, recent_content[i].title),
               title_threshold)}

topic_matches_dropped(topic, recent_content) == {}

topic_matches(topic, recent_content) ==
    {i \in 1..Len(recent_content) :
        FracGT(calculate_topic_similarity(topic, recent_content[i].topic),
               similarity_threshold)}

check_content_similarity(title, topic, category) ==
    LET recent_content == get_recent_content(30)
        title_similarity(i) ==
            calculate_topic_similarity(title, recent_content[i].title)
        topic_similarity(i) ==
            calculate_topic_similarity(topic, recent_content[i].topic)
        title_similarities == title_matches(title, recent_content)
        topic_similarities == topic_matches(topic, recent_content)
        category_repetition ==
            _check_category_repetition(category, recent_content)
        keyword_repetition == _check_keyword_repetition(topic, recent_content)
        max_title_similarity ==
            MaxOver({title_similarity(i) : i \in title_similarities}, Zero)
        max_topic_similarity ==
            MaxOver({topic_similarity(i) : i \in topic_similarities}, Zero)
        overall_similarity == FracMax(max_title_similarity, max_topic_similarity)
        is_too_similar ==
            \/ FracGT(overall_similarity, similarity_threshold)
            \/ category_repetition.is_repetitive
            \/ keyword_repetition.is_repetitive
    IN  [is_similar |-> is_too_similar,
         overall_similarity |-> overall_similarity,
         title_similarities |-> {recent_content[i] : i \in title_similarities},
         topic_similarities |-> {recent_content[i] : i \in topic_similarities},
         category_repetition |-> category_repetition,
         keyword_repetition |-> keyword_repetition]

\* list.sort(key=diversity_score, reverse=True): stable insertion of x
RECURSIVE InsertByDiversity(_, _)
InsertByDiversity(x, sorted) ==
    IF sorted = <<>> THEN <<x>>
    ELSE IF FracGE(Head(sorted).diversity_score, x.diversity_score)
         THEN <<Head(sorted)>> \o InsertByDiversity(x, Tail(sorted))
         ELSE <<x>> \o sorted

RECURSIVE SortByDiversity(_)
SortByDiversity(seq) ==
    IF seq = <<>> THEN <<>>
    ELSE InsertByDiversity(seq[Len(seq)],
                           SortByDiversity(SubSeq(seq, 1, Len(seq) - 1)))

suggest_content_alternatives(original_topic, category, count) ==
    LET categories == <<"Nutrition", "Fitness", "Immune System">>
        category_topics ==
            IF Truthy(category) THEN get_topics_by_category(category, None)
            ELSE Flatten([i \in 1..Len(categories) |->
                             get_topics_by_category(categories[i], None)])
        similarity(i) ==
            calculate_topic_similarity(original_topic, category_topics[i])
        kept == SelectSeq([i \in 1..Len(category_topics) |-> i],
                          LAMBDA i : FracLT(similarity(i), similarity_threshold))
        alternatives ==
            [k \in 1..Len(kept) |->
                [topic |-> category_topics[kept[k]],
                 category |-> IF Truthy(category) THEN category ELSE "Various",
                 similarity_to_original |-> similarity(kept[k]),
                 diversity_score |-> FracSub(One, similarity(kept[k]))]]
        sorted == SortByDiversity(alternatives)
    IN  SubSeq(sorted, 1, IF Len(sorted) < count THEN Len(sorted) ELSE count)

get_diversity_score_for_topic(topic, category) ==
    LET recent_content == get_recent_content(30)
        similarities ==
            {calculate_topic_similarity(topic, recent_content[i].topic) :
                i \in 1..Len(recent_content)}
        max_similarity == MaxOver(similarities, Zero)
        diversity_score == FracSub(One, max_similarity)
        category_usage ==
            Len(SelectSeq(recent_content, LAMBDA r : r.category = category))
        category_diversity ==
            IF Truthy(category) THEN Frac(1, 1 + category_usage) ELSE One
        overall_diversity ==
            FracHalf(FracAdd(diversity_score, category_diversity))
    IN  [diversity_score |-> overall_diversity,
         max_similarity |-> max_similarity,
         category_diversity |-> category_diversity,
         is_diverse |-> FracGT(overall_diversity, diverse_threshold)]

validate_content_diversity(title, topic, category) ==
    LET similarity_analysis == check_content_similarity(title, topic, category)
        diversity_analysis == get_diversity_score_for_topic(topic, category)
        alternatives ==
            IF \/ similarity_analysis.is_similar
               \/ FracLT(diversity_analysis.diversity_score, diverse_threshold)
            THEN suggest_content_alternatives(topic, category, 3)
            ELSE <<>>
        is_valid ==
            ~similarity_analysis.is_similar /\ diversity_analysis.is_diverse
    IN  [is_valid |-> is_valid,
         similarity_analysis |-> similarity_analysis,
         diversity_analysis |-> diversity_analysis,
         alternatives |-> alternatives,
         overall_score |->
            FracHalf(FracAdd(FracSub(One, similarity_analysis.overall_similarity),
                             diversity_analysis.diversity_score))]

CandidateTitles == {StayHydratedSummer, EveningWalk}
CandidateTopics ==
    {LemonWaterMorning, LemonWaterRecipe, StayHydratedDaily, EveningWalk}
CandidateCategories == {"Nutrition", "Immune System", None}

CheckContentSimilarity(title, topic, category) ==
    /\ last = NoCall
    /\ last' = [op |-> "check_content_similarity",
                title |-> title, topic |-> topic, category |-> category,
                result |-> check_content_similarity(title, topic, category)]
    /\ UNCHANGED <<history, topicA, topicB>>

ValidateContentDiversity(title, topic, category) ==
    /\ last = NoCall
    /\ last' = [op |-> "validate_content_diversity",
                title |-> title, topic |-> topic, category |-> category,
                result |-> validate_content_diversity(title, topic, category)]
    /\ UNCHANGED <<history, topicA, topicB>>

NextDetector ==
    \/ \E p \in Packages : track_generated_content(p)
    \/ \E d \in TickDays : Tick(d)
    \/ \E title \in CandidateTitles, topic \in CandidateTopics,
         category \in CandidateCategories :
           CheckContentSimilarity(title, topic, category)

SpecDetector == InitHistory /\ [][NextDetector]_vars

NextValidator ==
    \/ \E p \in Packages : track_generated_content(p)
    \/ \E d \in TickDays : Tick(d)
    \/ \E title \in CandidateTitles, topic \in CandidateTopics,
         category \in CandidateCategories :
           ValidateContentDiversity(title, topic, category)

SpecValidator == InitHistory /\ [][NextValidator]_vars

-----------------------------------------------------------------------------
(* TopicDiversityEngine: category weights and weighted selection *)

\* an exception escaping a call, in place of its return value
Exceptions == {"IndexError", "ValueError"}

Max(a, b) == IF a >= b THEN a ELSE b

category_weights_without_floor ==
    [category \in DOMAIN HEALTH_CATEGORIES |->
        LET recent_usage ==
                Len(SelectSeq(get_recent_content(30),
                           LAMBDA r : r.category = category))
        IN  HEALTH_CATEGORIES[category].weight + (10 - recent_usage)]

get_category_weights ==
    [category \in DOMAIN HEALTH_CATEGORIES |->
        LET recent_usage ==
                Len(SelectSeq(get_recent_content(30),
                           LAMBDA r : r.category = category))
            bonus_weight == Max(0, 10 - recent_usage)
        IN  HEALTH_CATEGORIES[category].weight + bonus_weight]

RECURSIVE SumOver(_, _)
SumOver(S, weights) ==
    IF S = {} THEN 0
    ELSE LET x == CHOOSE y \in S : TRUE
         IN  weights[x] + SumOver(S \ {x}, weights)

\* random.choices(categories, weights=weights_list, k=1)[0]: every outcome
\* the draw can produce
random_choices(categories, weights) ==
    IF categories = {} THEN {"IndexError"}
    ELSE IF SumOver(categories, weights) <= 0 THEN {"ValueError"}
    ELSE {c \in categories : weights[c] > 0}

select_diverse_category_without_fallback(exclude_categories) ==
    LET weights == get_category_weights
        available_categories == DOMAIN weights \ exclude_categories
    IN  random_choices(available_categories, weights)

\* the set of categories select_diverse_category can return
select_diverse_category(exclude_categories) ==
    LET weights == get_category_weights
        available_categories == DOMAIN weights \ exclude_categories
    IN  IF available_categories = {}
        THEN random_choices(DOMAIN weights, weights)
        ELSE random_choices(available_categories, weights)

suggest_next_category_three_days(exclude_recent) ==
    IF exclude_recent
    THEN LET recent_content == get_recent_content(3)
             recent_categories ==
                 {recent_content[i].category : i \in 1..Len(recent_content)}
         IN  select_diverse_category(recent_categories)
    ELSE select_diverse_category({})

suggest_next_category(exclude_recent) ==
    IF exclude_recent
    THEN LET recent_content == get_recent_content(7)
             recent_categories ==
                 {recent_content[i].category : i \in 1..Len(recent_content)}
         IN  select_diverse_category(recent_categories)
    ELSE select_diverse_category({})

find_similar_topics(topic, threshold) ==
    SelectSeq(get_recent_content(30),
              LAMBDA r : FracGE(calculate_topic_similarity(topic, r.topic),
                                threshold))

topic_never_too_similar(topic, max_similarity) == FALSE

is_topic_too_similar(topic, max_similarity) ==
    Len(find_similar_topics(topic, max_similarity)) > 0

ExcludeLists == SUBSET {"Nutrition", "Fitness", "Immune System", "Lifestyle"}

SelectDiverseCategory(exclude_categories) ==
    /\ last = NoCall
    /\ \E selected \in select_diverse_category(exclude_categories) :
          last' = [op |-> "select_diverse_category",
                   exclude_categories |-> exclude_categories,
                   result |-> selected]
    /\ UNCHANGED <<history, topicA, topicB>>

SuggestNextCategory(exclude_recent) ==
    /\ last = NoCall
    /\ \E selected \in suggest_next_category(exclude_recent) :
          last' = [op |-> "suggest_next_category",
                   exclude_recent |-> exclude_recent,
                   result |-> selected]
    /\ UNCHANGED <<history, topicA, topicB>>

NextEngine ==
    \/ \E p \in Packages : track_generated_content(p)
    \/ \E d \in TickDays : Tick(d)
    \/ \E exclude_categories \in ExcludeLists :
          SelectDiverseCategory(exclude_categories)
    \/ \E exclude_recent \in BOOLEAN : SuggestNextCategory(exclude_recent)

SpecEngine == InitHistory /\ [][NextEngine]_vars

-----------------------------------------------------------------------------
(* SmartTopicSelector (smart_selector.py) *)

_select_diverse_category(exclude_recent) ==
    IF exclude_recent
    THEN LET recent_content == get_recent_content(7)
             recent_categories ==
                 {recent_content[i].category : i \in 1..Len(recent_content)}
         IN  select_diverse_category(recent_categories)
    ELSE select_diverse_category({})

filter_similar_topics_keeping_all(topics) == topics

_filter_similar_topics(topics) ==
    LET recent_content == get_recent_content(30)
        is_similar(topic) ==
            \E i \in 1..Len(recent_content) :
                FracGE(calculate_topic_similarity(topic,
                                                  recent_content[i].topic),
                       similarity_threshold)
    IN  SelectSeq(topics, LAMBDA topic : ~is_similar(topic))

_determine_difficulty_level(topic, category) ==
    LET holds(difficulty) ==
            topic \in Range(get_topics_by_category(category, difficulty))
    IN  IF holds("beginner") THEN "beginner"
        ELSE IF holds("intermediate") THEN "intermediate"
        ELSE IF holds("advanced") THEN "advanced"
        ELSE "beginner"

confidence_penalising_the_dissimilar(topic, category) ==
    LET category_usage == get_category_usage(category, 30)
        boosted ==
            IF category_usage = 0 THEN FracAdd(Frac(8, 10), Frac(2, 10))
            ELSE IF category_usage < 3 THEN FracAdd(Frac(8, 10), Frac(1, 10))
            ELSE Frac(8, 10)
        similar_topics == find_similar_topics(topic, similarity_threshold)
        confidence ==
            IF similar_topics = <<>> THEN FracSub(boosted, Frac(3, 10))
            ELSE boosted
    IN  FracMax(Zero, FracMin(One, confidence))

confidence_with_bonus_below_two(topic, category) ==
    LET category_usage == get_category_usage(category, 30)
        boosted ==
            IF category_usage = 0 THEN FracAdd(Frac(8, 10), Frac(2, 10))
            ELSE IF category_usage < 2 THEN FracAdd(Frac(8, 10), Frac(1, 10))
            ELSE Frac(8, 10)
        similar_topics == find_similar_topics(topic, similarity_threshold)
        confidence ==
            IF similar_topics # <<>> THEN FracSub(boosted, Frac(3, 10))
            ELSE boosted
    IN  FracMax(Zero, FracMin(One, confidence))

_calculate_selection_confidence(topic, category) ==
    LET category_usage == get_category_usage(category, 30)
        boosted ==
            IF category_usage = 0 THEN FracAdd(Frac(8, 10), Frac(2, 10))
            ELSE IF category_usage < 3 THEN FracAdd(Frac(8, 10), Frac(1, 10))
            ELSE Frac(8, 10)
        similar_topics == find_similar_topics(topic, similarity_threshold)
        confidence ==
            IF similar_topics # <<>> THEN FracSub(boosted, Frac(3, 10))
            ELSE boosted
    IN  FracMax(Zero, FracMin(One, confidence))

selectable_topics_without_unfiltered(category, difficulty, exclude_recent) ==
    LET by_difficulty == get_topics_by_category(category, difficulty)
        available_topics ==
            IF by_difficulty = <<>>
            THEN get_topics_by_category(category, None)
            ELSE by_difficulty
        filtered_topics ==
            IF exclude_recent THEN _filter_similar_topics(available_topics)
            ELSE available_topics
    IN  IF filtered_topics # <<>> THEN Range(filtered_topics)
        ELSE {FallbackTopic}

\* random.choice over the list Step 4 draws from
selectable_topics(category, difficulty, exclude_recent) ==
    LET by_difficulty == get_topics_by_category(category, difficulty)
        available_topics ==
            IF by_difficulty = <<>>
            THEN get_topics_by_category(category, None)
            ELSE by_difficulty
        filtered_topics ==
            IF exclude_recent THEN _filter_similar_topics(available_topics)
            ELSE available_topics
    IN  IF filtered_topics # <<>> THEN Range(filtered_topics)
        ELSE IF available_topics # <<>> THEN Range(available_topics)
        ELSE {FallbackTopic}

\* the set of results select_optimal_topic can return
select_optimal_topic(preferred_category, difficulty, exclude_recent) ==
    LET categories ==
            IF Truthy(preferred_category) THEN {preferred_category}
            ELSE _select_diverse_category(exclude_recent)
    IN  UNION {
          IF category \in Exceptions
          THEN {[raised |-> category]}
          ELSE {[topic |-> selected_topic,
                 category |-> category,
                 difficulty |->
                    _determine_difficulty_level(selected_topic, category),
                 confidence |->
                    _calculate_selection_confidence(selected_topic, category)] :
                selected_topic \in
                    selectable_topics(category, difficulty, exclude_recent)} :
          category \in categories}

SelectorPackages ==
    {Package(WarmLemonWater, "Nutrition"),
     Package(StayHydrated, "Immune System")}

PreferredCategories ==
    {None, "Nutrition", "Fitness", "Immune System", "Gardening"}
Difficulties == {None, "beginner", "expert"}

SelectOptimalTopic(preferred_category, difficulty, exclude_recent) ==
    /\ last = NoCall
    /\ \E selected \in select_optimal_topic(preferred_category, difficulty,
                                            exclude_recent) :
          last' = [op |-> "select_optimal_topic",
                   preferred_category |-> preferred_category,
                   difficulty |-> difficulty,
                   exclude_recent |-> exclude_recent,
                   result |-> selected]
    /\ UNCHANGED <<history, topicA, topicB>>

NextSelector ==
    \/ \E p \in SelectorPackages : track_generated_content(p)
    \/ \E d \in TickDays : Tick(d)
    \/ \E preferred_category \in PreferredCategories,
         difficulty \in Difficulties, exclude_recent \in BOOLEAN :
           SelectOptimalTopic(preferred_category, difficulty, exclude_recent)

SpecSelector == InitHistory /\ [][NextSelector]_vars

-----------------------------------------------------------------------------
(* C9, C10: the similarity primitive *)

KeywordSet(text) == Range(extract_topic_keywords(text))

SimilarityCalled == last.op = "calculate_topic_similarity"

\* C9: similarity(a, b) == similarity(b, a) for all topic strings a and b.
C9_SimilaritySymmetric ==
    SimilarityCalled =>
        FracEQ(last.result,
               calculate_topic_similarity(last.topic2, last.topic1))

\* a partial overlap between two different keyword sets was scored
C9_Witness ==
    /\ SimilarityCalled
    /\ KeywordSet(last.topic1) # KeywordSet(last.topic2)
    /\ FracGT(last.result, Zero)

\* C10: similarity(a, b) is |K(a) \cap K(b)| / |K(a) \cup K(b)| over the
\* extracted keyword sets, lies in [0, 1], and is 0.0 when either keyword
\* set is empty.
C10_SimilarityIsJaccard ==
    SimilarityCalled =>
        LET Ka == KeywordSet(last.topic1)
            Kb == KeywordSet(last.topic2)
        IN  /\ last.result.d > 0
            /\ FracGE(last.result, Zero) /\ FracLE(last.result, One)
            /\ (Ka = {} \/ Kb = {}) => FracEQ(last.result, Zero)
            /\ (Ka # {} /\ Kb # {}) =>
                   last.result.n * Cardinality(Ka \cup Kb)
                       = Cardinality(Ka \cap Kb) * last.result.d

\* a text repeating a keyword (in another case) was scored against a text
\* sharing that keyword
C10_Witness ==
    /\ SimilarityCalled
    /\ Len(extract_topic_keywords(last.topic1))
           > Cardinality(KeywordSet(last.topic1))
    /\ KeywordSet(last.topic1) \cap KeywordSet(last.topic2) # {}
    /\ KeywordSet(last.topic2) # KeywordSet(last.topic1)

-----------------------------------------------------------------------------
(* C1, C2, C3: check_content_similarity *)

CheckCalled == last.op = "check_content_similarity"

RecentRecords(days) == {i \in 1..Len(history) : history[i].age <= days}

\* C1: is_similar is true whenever some record of the last 30 days has topic
\* similarity >= 0.4 to the candidate topic, a similarity of exactly 0.4
\* included, whatever the title, category and keyword rules say.
C1_TopicRuleFromPointFour ==
    CheckCalled =>
        ((\E i \in RecentRecords(30) :
             FracGE(calculate_topic_similarity(last.topic, history[i].topic),
                    Frac(4, 10)))
            => last.result.is_similar)

\* C1 as amended: is_similar is true whenever some record of the last 30
\* days has topic similarity strictly above 0.4 to the candidate topic,
\* whatever the title, category and keyword rules say.
C1_TopicRuleAbovePointFour ==
    CheckCalled =>
        ((\E i \in RecentRecords(30) :
             FracGT(calculate_topic_similarity(last.topic, history[i].topic),
                    Frac(4, 10)))
            => last.result.is_similar)

\* only the topic rule fired: no title match, category not repetitive, no
\* overused keyword
C1_Witness ==
    /\ CheckCalled
    /\ \E i \in RecentRecords(30) :
          FracGT(calculate_topic_similarity(last.topic, history[i].topic),
                 Frac(4, 10))
    /\ last.result.title_similarities = {}
    /\ ~last.result.category_repetition.is_repetitive
    /\ ~last.result.keyword_repetition.is_repetitive
    /\ last.result.is_similar

\* C2: is_similar is true whenever some record of the last 30 days has a
\* title whose similarity to the candidate title is >= 0.3, even when the
\* topic, category and keyword rules do not fire.
C2_TitleRuleFromPointThree ==
    CheckCalled =>
        ((\E i \in RecentRecords(30) :
             FracGE(calculate_topic_similarity(last.title, history[i].title),
                    Frac(3, 10)))
            => last.result.is_similar)

\* C3: for a non-empty category c, category_repetition.is_repetitive is true
\* exactly when c has a record generated within the last 3 days or more
\* than 2 records within the last 30 days, and is_repetitive forces
\* is_similar.
C3_CategoryRepetition ==
    (CheckCalled /\ Truthy(last.category)) =>
        LET of_c(days) ==
                {i \in RecentRecords(days) :
                    history[i].category = last.category}
            repetitive == last.result.category_repetition.is_repetitive
        IN  /\ repetitive <=>
                  (of_c(3) # {} \/ Cardinality(of_c(30)) > 2)
            /\ repetitive => last.result.is_similar

\* a single record of the category, generated today, made it repetitive
C3_Witness ==
    /\ CheckCalled
    /\ Truthy(last.category)
    /\ Cardinality({i \in 1..Len(history) :
                       history[i].category = last.category}) = 1
    /\ \E i \in 1..Len(history) :
          history[i].category = last.category /\ history[i].age = 0
    /\ last.result.category_repetition.is_repetitive
    /\ last.result.is_similar

-----------------------------------------------------------------------------
(* C8: validate_content_diversity *)

ValidateCalled == last.op = "validate_content_diversity"

\* C8: whenever validate returns is_valid == false, its alternatives field
\* equals suggest_alternatives(topic, category, 3), also when is_similar is
\* false and diversity_score is exactly 0.6.
C8_InvalidHasAlternatives ==
    (ValidateCalled /\ ~last.result.is_valid) =>
        last.result.alternatives
            = suggest_content_alternatives(last.topic, last.category, 3)

-----------------------------------------------------------------------------
(* C4, C5: category selection *)

DefinedCategories == DOMAIN HEALTH_CATEGORIES

UsedWithin(days) == {history[i].category : i \in RecentRecords(days)}

\* C4: for every history in which at least one defined category has no
\* record in the last 7 days, suggest_next_category(exclude_recent=true)
\* never returns a category that has a record in the last 7 days.
C4_SuggestSkipsRecentCategories ==
    (/\ last.op = "suggest_next_category"
     /\ last.exclude_recent
     /\ DefinedCategories \ UsedWithin(7) # {})
        => /\ last.result \in DefinedCategories
           /\ last.result \notin UsedWithin(7)

\* three Nutrition records generated today, and another category suggested
C4_Witness ==
    /\ last.op = "suggest_next_category"
    /\ last.exclude_recent
    /\ Len(history) = 3
    /\ \A i \in 1..Len(history) :
          history[i].category = "Nutrition" /\ history[i].age = 0
    /\ last.result \in DefinedCategories \ {"Nutrition"}

\* C5: select_category(exclude) always returns a category of the defined
\* catalog and never fails; the result is not in exclude when exclude leaves
\* a category, and is drawn from the full set when exclude covers them all.
C5_SelectCategoryNeverFails ==
    last.op = "select_diverse_category" =>
        /\ last.result \in DefinedCategories
        /\ DefinedCategories \ last.exclude_categories # {}
              => last.result \notin last.exclude_categories

\* every defined category was excluded and one of them came back
C5_Witness ==
    /\ last.op = "select_diverse_category"
    /\ DefinedCategories \subseteq last.exclude_categories
    /\ last.result \in DefinedCategories
    /\ history # <<>>

-----------------------------------------------------------------------------
(* C6, C7: select_optimal_topic *)

SelectCalled == last.op = "select_optimal_topic"

Returned == "raised" \notin DOMAIN last.result

\* the catalog's topics for a category, over all its difficulty buckets
CatalogTopics(category) ==
    IF category \in DOMAIN TOPIC_DATABASE
    THEN UNION {Range(TOPIC_DATABASE[category][d]) :
                   d \in {"beginner", "intermediate", "advanced"}}
    ELSE {}

TooSimilarToHistory(topic) ==
    \E i \in RecentRecords(30) :
        FracGE(calculate_topic_similarity(topic, history[i].topic),
               Frac(4, 10))

\* C6: with an empty history, select(preferred_category=c) for a catalog
\* category c returns a topic of the catalog's topics for c, with
\* confidence >= 0.8, and is_too_similar(topic) is false for it.
C6_ColdStartSelect ==
    (/\ SelectCalled
     /\ history = <<>>
     /\ last.preferred_category \in DOMAIN TOPIC_DATABASE)
        => /\ Returned
           /\ last.result.category = last.preferred_category
           /\ last.result.topic \in CatalogTopics(last.preferred_category)
           /\ FracGE(last.result.confidence, Frac(8, 10))
           /\ ~is_topic_too_similar(last.result.topic, Frac(4, 10))

\* a cold-start selection from a catalog category with the default arguments
C6_Witness ==
    /\ SelectCalled
    /\ history = <<>>
    /\ last.preferred_category = "Fitness"
    /\ last.difficulty = None
    /\ last.exclude_recent
    /\ Returned
    /\ last.result.topic = WalkAfterMeal
    /\ FracEQ(last.result.confidence, One)

\* C7: select returns a candidate for every history and every argument
\* combination, an unknown category or difficulty included: the topic comes
\* from the similarity-filtered list when that is non-empty, else from the
\* unfiltered candidate list of the category, else it is the generic
\* fallback string.
C7_SelectAlwaysReturns ==
    SelectCalled =>
        /\ Returned
        /\ LET category == last.result.category
               bucket ==
                   IF /\ category \in DOMAIN TOPIC_DATABASE
                      /\ last.difficulty \in {"beginner", "intermediate",
                                              "advanced"}
                   THEN Range(TOPIC_DATABASE[category][last.difficulty])
                   ELSE {}
               candidates ==
                   IF bucket # {} THEN bucket ELSE CatalogTopics(category)
               filtered ==
                   IF last.exclude_recent
                   THEN {t \in candidates : ~TooSimilarToHistory(t)}
                   ELSE candidates
           IN  /\ Truthy(last.preferred_category)
                     => category = last.preferred_category
               /\ IF filtered # {} THEN last.result.topic \in filtered
                  ELSE IF candidates # {}
                       THEN last.result.topic \in candidates
                       ELSE last.result.topic = FallbackTopic

\* every candidate of the bucket was filtered out as too similar, and the
\* topic came from the unfiltered list
C7_Witness ==
    /\ SelectCalled
    /\ Returned
    /\ last.exclude_recent
    /\ last.preferred_category = "Immune System"
    /\ last.difficulty = "beginner"
    /\ TooSimilarToHistory(StayHydrated)
    /\ last.result.topic = StayHydrated

-----------------------------------------------------------------------------
(* C11: self-similarity *)

SelfSimilarityCalled == SimilarityCalled /\ last.topic1 = last.topic2

\* the words of the text, as re.findall yields them from the lowered text
NonStopWords(text) ==
    {w \in Range(FindAllWords(text)) : w \notin stop_words}

\* C11 as stated: for every topic string a that contains at least one word
\* that is not in the stop-word list, similarity(a, a) == 1.0.
C11_SelfSimilarityOfNonStopWord ==
    (SelfSimilarityCalled /\ NonStopWords(last.topic1) # {}) =>
        FracEQ(last.result, One)

\* C11: for every topic string a with at least one keyword, that is a word
\* outside the stop-word list that is longer than two characters,
\* similarity(a, a) == 1.0.
C11_SelfSimilarityOfKeywordedText ==
    (SelfSimilarityCalled /\ KeywordSet(last.topic1) # {}) =>
        FracEQ(last.result, One)

\* a text with a keyword and a short non-stop word was scored against itself
C11_Witness ==
    /\ SelfSimilarityCalled
    /\ KeywordSet(last.topic1) # {}
    /\ NonStopWords(last.topic1) # KeywordSet(last.topic1)
    /\ FracEQ(last.result, One)

-----------------------------------------------------------------------------
(* TopicDiversityEngine.get_diversity_score over histories whose records   *)
(* carry defined and undefined category strings                            *)

MaxScoreHist == 4  \* most records in the history scored for diversity

RECURSIVE GCD(_, _)
GCD(a, b) == IF b = 0 THEN a ELSE GCD(b, a % b)

\* the same number in lowest terms (numerators here are never negative)
Reduce(x) == LET g == GCD(x.n, x.d) IN Frac(x.n \div g, x.d \div g)

\* sum(similarities), the similarities of the pairs i < j of topics
RECURSIVE SumOfSimilarities(_, _)
SumOfSimilarities(topics, pairs) ==
    IF pairs = {} THEN Zero
    ELSE LET p == CHOOSE q \in pairs : TRUE
         IN  Reduce(FracAdd(
                 calculate_topic_similarity(topics[p[1]], topics[p[2]]),
                 SumOfSimilarities(topics, pairs \ {p})))

diversity_score_without_empty_case(days) ==
    LET recent_content == get_recent_content(days)
        categories_used == {r.category : r \in Range(recent_content)}
        total_categories == Cardinality(DOMAIN HEALTH_CATEGORIES)
        category_diversity == Frac(Cardinality(categories_used),
                                   total_categories)
    IN  [score |-> FracHalf(FracAdd(category_diversity, One)),
         category_diversity |-> category_diversity,
         topic_diversity |-> One,
         categories_used |-> Cardinality(categories_used),
         total_categories |-> total_categories]

get_diversity_score(days) ==
    LET recent_content == get_recent_content(days)
        categories_used == {r.category : r \in Range(recent_content)}
        total_categories == Cardinality(DOMAIN HEALTH_CATEGORIES)
        category_diversity == Frac(Cardinality(categories_used),
                                   total_categories)
        topics == [i \in 1..Len(recent_content) |-> recent_content[i].topic]
        pairs == {p \in (1..Len(topics)) \X (1..Len(topics)) : p[1] < p[2]}
        sum == SumOfSimilarities(topics, pairs)
        avg_similarity == IF pairs # {}
                          THEN Frac(sum.n, sum.d * Cardinality(pairs))
                          ELSE Zero
        topic_diversity == IF Len(topics) < 2 THEN One
                           ELSE Reduce(FracSub(One, avg_similarity))
        overall_score == FracHalf(FracAdd(category_diversity, topic_diversity))
    IN  IF recent_content = <<>>
        THEN [score |-> One, category_diversity |-> One,
              topic_diversity |-> One]
        ELSE [score |-> overall_score,
              category_diversity |-> category_diversity,
              topic_diversity |-> topic_diversity,
              categories_used |-> Cardinality(categories_used),
              total_categories |-> total_categories]

\* blog_post['category'] is whatever string the generator's JSON carries
ScorePackages ==
    {Package(WarmLemonWater, "Nutrition"),
     Package(LemonWaterMorning, "Immune System"),
     Package(WalkAfterMeal, "Fitness"),
     Package(FallbackTopic, "General Health")}

ScoreTickDays == {20, 31}

ScoreWindows == {7, 30}

TrackScored(p) ==
    /\ Len(history) < MaxScoreHist
    /\ history' = Append(history, GeneratedContent_create(p))
    /\ last' = NoCall
    /\ UNCHANGED <<topicA, topicB>>

GetDiversityScore(days) ==
    /\ last = NoCall
    /\ last' = [op |-> "get_diversity_score", days |-> days,
                result |-> get_diversity_score(days)]
    /\ UNCHANGED <<history, topicA, topicB>>

NextScore ==
    \/ \E p \in ScorePackages : TrackScored(p)
    \/ \E d \in ScoreTickDays : Tick(d)
    \/ \E days \in ScoreWindows : GetDiversityScore(days)

SpecScore == InitHistory /\ [][NextScore]_vars

-----------------------------------------------------------------------------
(* C12, C13: the diversity score *)

ScoreCalled == last.op = "get_diversity_score"

InUnit(x) == x.d > 0 /\ FracGE(x, Zero) /\ FracLE(x, One)

\* C12: diversity_score(days) over a history with no record in the window
\* returns score == 1.0 and does not fail.
C12_ColdStartScore ==
    (ScoreCalled /\ RecentRecords(last.days) = {}) =>
        /\ "score" \in DOMAIN last.result
        /\ FracEQ(last.result.score, One)

\* the history has records, all of them older than the scored window
C12_Witness ==
    /\ ScoreCalled
    /\ history # <<>>
    /\ RecentRecords(last.days) = {}
    /\ FracEQ(last.result.score, One)

\* C13: for every history reachable by appending records, whatever category
\* strings they carry, and every window, score, category_diversity and
\* topic_diversity are each within [0, 1], category_diversity is the number
\* of distinct categories used over the number of defined categories, and
\* score is (category_diversity + topic_diversity) / 2.
C13_ScoreWithinUnitInterval ==
    ScoreCalled =>
        LET used == UsedWithin(last.days)
        IN  /\ InUnit(last.result.score)
            /\ InUnit(last.result.category_diversity)
            /\ InUnit(last.result.topic_diversity)
            /\ RecentRecords(last.days) # {} =>
                   FracEQ(last.result.category_diversity,
                          Frac(Cardinality(used),
                               Cardinality(DefinedCategories)))
            /\ FracEQ(last.result.score,
                      FracHalf(FracAdd(last.result.category_diversity,
                                       last.result.topic_diversity)))

-----------------------------------------------------------------------------
(* TopicDiversityEngine.get_category_weights over histories long enough    *)
(* to use up the ten bonus points of a category                            *)

MaxWeightHist == 11  \* most records in the history the weights are read from

WeightPackages ==
    {Package(WarmLemonWater, "Nutrition"),
     Package(StayHydrated, "Immune System")}

TrackWeighted(p) ==
    /\ Len(history) < MaxWeightHist
    /\ history' = Append(history, GeneratedContent_create(p))
    /\ last' = NoCall
    /\ UNCHANGED <<topicA, topicB>>

GetCategoryWeights ==
    /\ last = NoCall
    /\ last' = [op |-> "get_category_weights",
                result |-> get_category_weights]
    /\ UNCHANGED <<history, topicA, topicB>>

NextWeights ==
    \/ \E p \in WeightPackages : TrackWeighted(p)
    \/ Tick(MaxAge)
    \/ GetCategoryWeights

SpecWeights == InitHistory /\ [][NextWeights]_vars

-----------------------------------------------------------------------------
(* C14: category weights *)

WeightsCalled == last.op = "get_category_weights"

RecentUsage(c) ==
    Cardinality({i \in RecentRecords(30) : history[i].category = c})

\* C14: after any sequence of record appends, category_weights() gives every
\* defined category c the weight base_weight(c) + max(0, 10 - number of
\* records of c in the last 30 days of the current history); every weight
\* is >= its base weight > 0; and of two categories the one with lower
\* recent usage has the bonus (weight - base weight) >= the other's, so
\* with equal base weights it has weight >= the other's.
C14_CategoryWeights ==
    WeightsCalled =>
        /\ DOMAIN last.result = DefinedCategories
        /\ \A c \in DefinedCategories :
              LET base == HEALTH_CATEGORIES[c].weight
                  bonus == IF RecentUsage(c) < 10
                           THEN 10 - RecentUsage(c) ELSE 0
              IN  /\ last.result[c] = base + bonus
                  /\ last.result[c] >= base
                  /\ base > 0
        /\ \A c1, c2 \in DefinedCategories :
              RecentUsage(c1) <= RecentUsage(c2) =>
                  last.result[c1] - HEALTH_CATEGORIES[c1].weight
                      >= last.result[c2] - HEALTH_CATEGORIES[c2].weight
        /\ \A c1, c2 \in DefinedCategories :
              (/\ HEALTH_CATEGORIES[c1].weight = HEALTH_CATEGORIES[c2].weight
               /\ RecentUsage(c1) <= RecentUsage(c2)) =>
                  last.result[c1] >= last.result[c2]

\* one category has more than ten recent records and keeps its base weight,
\* another has no recent record and the full bonus
C14_Witness ==
    /\ WeightsCalled
    /\ \E c \in DefinedCategories :
          RecentUsage(c) > 10 /\ last.result[c] = HEALTH_CATEGORIES[c].weight
    /\ \E c \in DefinedCategories :
          /\ RecentUsage(c) = 0
          /\ last.result[c] = HEALTH_CATEGORIES[c].weight + 10

-----------------------------------------------------------------------------
(* ContentCalendar._calculate_rotation_efficiency (content_calendar.py) *)

MaxSeq == 4  \* longest category sequence whose rotation is measured

\* the loop over range(1, len(category_sequence))
RECURSIVE consecutive_count(_)
consecutive_count(category_sequence) ==
    IF Len(category_sequence) < 2 THEN 0
    ELSE (IF category_sequence[2] = category_sequence[1] THEN 1 ELSE 0)
             + consecutive_count(Tail(category_sequence))

rotation_efficiency_over_length(category_sequence) ==
    IF Len(category_sequence) < 2 THEN One
    ELSE FracSub(One, Frac(consecutive_count(category_sequence),
                           Len(category_sequence)))

_calculate_rotation_efficiency(category_sequence) ==
    IF Len(category_sequence) < 2 THEN One
    ELSE LET max_consecutive == Len(category_sequence) - 1
         IN  IF max_consecutive > 0
             THEN FracSub(One, Frac(consecutive_count(category_sequence),
                                    max_consecutive))
             ELSE One

CategorySequences ==
    UNION {[1..n -> DOMAIN HEALTH_CATEGORIES] : n \in 0..MaxSeq}

CalculateRotationEfficiency(category_sequence) ==
    /\ last = NoCall
    /\ last' = [op |-> "_calculate_rotation_efficiency",
                category_sequence |-> category_sequence,
                result |-> _calculate_rotation_efficiency(category_sequence)]
    /\ UNCHANGED <<history, topicA, topicB>>

NextRotation ==
    \E category_sequence \in CategorySequences :
        CalculateRotationEfficiency(category_sequence)

SpecRotation == InitHistory /\ [][NextRotation]_vars

-----------------------------------------------------------------------------
(* C15: rotation efficiency *)

RotationCalled == last.op = "_calculate_rotation_efficiency"

SameAsPrevious(s) == {i \in 2..Len(s) : s[i] = s[i - 1]}

\* C15: for every category sequence s of length >= 2, rotation_efficiency(s)
\* is 1 - (number of positions i with s[i] == s[i-1]) / (len(s) - 1), so it
\* is 0.0 for [A, A, A] and 1.0 for [A, B, A, B]; for sequences of length
\* < 2 it is 1.0; the value is always in [0, 1].
C15_RotationEfficiency ==
    RotationCalled =>
        LET s == last.category_sequence
        IN  /\ Len(s) >= 2 =>
                   last.result.n * (Len(s) - 1) =
                       (Len(s) - 1 - Cardinality(SameAsPrevious(s)))
                           * last.result.d
            /\ Len(s) < 2 => FracEQ(last.result, One)
            /\ InUnit(last.result)
            /\ \A A, B \in DefinedCategories :
                  /\ s = <<A, A, A>> => FracEQ(last.result, Zero)
                  /\ (A # B /\ s = <<A, B, A, B>>) =>
                         FracEQ(last.result, One)

\* a sequence with one repeated and one changed category scored 1/2
C15_Witness ==
    /\ RotationCalled
    /\ Len(last.category_sequence) = 3
    /\ Cardinality(SameAsPrevious(last.category_sequence)) = 1
    /\ FracEQ(last.result, Frac(1, 2))

-----------------------------------------------------------------------------
(* ContentCalendar.generate_content_calendar (content_calendar.py) *)

MaxPieces == 3        \* most pieces of a plan: days * content_per_day
MaxCalendarHist == 1  \* most records in the history a plan is drawn against

\* TopicBank.get_random_topic: every topic random.choice can return
get_random_topic(category, difficulty) ==
    LET categories == IF Truthy(category) THEN {category}
                      ELSE DOMAIN TOPIC_DATABASE
    IN  UNION {LET topics == get_topics_by_category(c, difficulty)
               IN  IF topics = <<>> THEN {FallbackTopic} ELSE Range(topics) :
               c \in categories}

_calculate_piece_diversity(topic, category) ==
    LET recent_content == get_recent_content(30)
        similarities ==
            {calculate_topic_similarity(topic, r.topic) :
                r \in Range(recent_content)}
    IN  Reduce(FracSub(One, MaxOver(similarities, Zero)))

\* every piece the two random draws can produce, or the exception that
\* escapes select_optimal_topic
_generate_content_piece(index) ==
    UNION {
      IF "raised" \in DOMAIN selection_result THEN {selection_result}
      ELSE {[index |-> index + 1,
             topic |-> topic,
             category |-> selection_result.category,
             difficulty |-> selection_result.difficulty,
             confidence |-> selection_result.confidence,
             diversity_score |->
                _calculate_piece_diversity(topic,
                                           selection_result.category)] :
            topic \in get_random_topic(selection_result.category,
                                       selection_result.difficulty)} :
      selection_result \in select_optimal_topic(None, None, TRUE)}

\* date is the number of days after timezone.now()
_generate_daily_content(date, count) ==
    LET pieces == {p \in _generate_content_piece(0) :
                      "raised" \notin DOMAIN p}
    IN  {[date |-> date,
          content_pieces |-> [i \in 1..count |-> [f[i] EXCEPT !.index = i]]] :
         f \in [1..count -> pieces]}

AllPieces(daily_schedule) ==
    Flatten([d \in 1..Len(daily_schedule) |->
                daily_schedule[d].content_pieces])

_calculate_category_balance(category_usage) ==
    IF DOMAIN category_usage = {} THEN One
    ELSE LET counts == {category_usage[c] : c \in DOMAIN category_usage}
             max_usage == CHOOSE x \in counts : \A y \in counts : x >= y
             min_usage == CHOOSE x \in counts : \A y \in counts : x <= y
         IN  IF max_usage > 0
             THEN Reduce(FracSub(One, Frac(max_usage - min_usage, max_usage)))
             ELSE One

_analyze_category_rotation(daily_schedule) ==
    LET pieces == AllPieces(daily_schedule)
        category_sequence == [i \in 1..Len(pieces) |-> pieces[i].category]
        category_usage ==
            [c \in Range(category_sequence) |->
                Len(SelectSeq(category_sequence, LAMBDA x : x = c))]
    IN  [category_distribution |-> category_usage,
         category_sequence |-> category_sequence,
         rotation_efficiency |->
            _calculate_rotation_efficiency(category_sequence),
         category_balance |-> _calculate_category_balance(category_usage)]

_calculate_topic_diversity(topics) ==
    LET pairs == {p \in (1..Len(topics)) \X (1..Len(topics)) : p[1] < p[2]}
        sum == SumOfSimilarities(topics, pairs)
    IN  IF Len(topics) < 2 \/ pairs = {} THEN One
        ELSE Reduce(FracSub(One, Frac(sum.n, sum.d * Cardinality(pairs))))

_calculate_calendar_diversity(daily_schedule) ==
    LET pieces == AllPieces(daily_schedule)
        all_topics == [i \in 1..Len(pieces) |-> pieces[i].topic]
        all_categories == {pieces[i].category : i \in 1..Len(pieces)}
        topic_diversity == _calculate_topic_diversity(all_topics)
        category_diversity ==
            Frac(Cardinality(all_categories),
                 Cardinality(DOMAIN HEALTH_CATEGORIES))
    IN  [topic_diversity |-> topic_diversity,
         category_diversity |-> category_diversity,
         overall_diversity |->
            Reduce(FracHalf(FracAdd(topic_diversity, category_diversity))),
         total_topics |-> Len(all_topics),
         unique_categories |-> Cardinality(all_categories)]

\* the schedules the loop over range(days) can build
RECURSIVE daily_schedules(_, _)
daily_schedules(days, content_per_day) ==
    IF days <= 0 THEN {<<>>}
    ELSE {Append(schedule, daily_content) :
            schedule \in daily_schedules(days - 1, content_per_day),
            daily_content \in
                _generate_daily_content(days - 1, content_per_day)}

calendar_of(days, content_per_day, daily_schedule) ==
    [planning_period |-> days,
     content_per_day |-> content_per_day,
     total_content_pieces |-> days * content_per_day,
     daily_schedule |-> daily_schedule,
     category_rotation |-> _analyze_category_rotation(daily_schedule),
     diversity_metrics |-> _calculate_calendar_diversity(daily_schedule)]

\* an exception of a piece escapes the whole call
calendar_exceptions(days, content_per_day) ==
    IF days > 0 /\ content_per_day > 0
    THEN {p \in _generate_content_piece(0) : "raised" \in DOMAIN p}
    ELSE {}

calendar_with_loops_swapped(days, content_per_day) ==
    {calendar_of(days, content_per_day, daily_schedule) :
        daily_schedule \in daily_schedules(content_per_day, days)}
    \cup calendar_exceptions(days, content_per_day)

\* every calendar generate_content_calendar can return
generate_content_calendar(days, content_per_day) ==
    {calendar_of(days, content_per_day, daily_schedule) :
        daily_schedule \in daily_schedules(days, content_per_day)}
    \cup calendar_exceptions(days, content_per_day)

CalendarPackages == {Package(WarmLemonWater, "Nutrition")}

TrackPlanned(p) ==
    /\ Len(history) < MaxCalendarHist
    /\ history' = Append(history, GeneratedContent_create(p))
    /\ last' = NoCall
    /\ UNCHANGED <<topicA, topicB>>

GenerateContentCalendar(days, content_per_day) ==
    /\ last = NoCall
    /\ days * content_per_day <= MaxPieces
    /\ \E calendar \in generate_content_calendar(days, content_per_day) :
          last' = [op |-> "generate_content_calendar",
                   days |-> days,
                   content_per_day |-> content_per_day,
                   result |-> calendar]
    /\ UNCHANGED <<history, topicA, topicB>>

NextCalendar ==
    \/ \E p \in CalendarPackages : TrackPlanned(p)
    \/ Tick(MaxAge)
    \/ \E days \in 0..MaxPieces, content_per_day \in 0..MaxPieces :
          GenerateContentCalendar(days, content_per_day)

SpecCalendar == InitHistory /\ [][NextCalendar]_vars

-----------------------------------------------------------------------------
(* C16: plan size *)

CalendarCalled == last.op = "generate_content_calendar"

\* C16: generate(days=d, content_per_day=k) produces a plan with exactly d
\* daily entries, each holding exactly k content pieces (so d*k pieces in
\* total, matching total_content_pieces), for every history.
C16_PlanSize ==
    CalendarCalled =>
        /\ Returned
        /\ Len(last.result.daily_schedule) = last.days
        /\ \A d \in 1..Len(last.result.daily_schedule) :
              Len(last.result.daily_schedule[d].content_pieces)
                  = last.content_per_day
        /\ Len(AllPieces(last.result.daily_schedule))
              = last.days * last.content_per_day
        /\ last.result.total_content_pieces
              = Len(AllPieces(last.result.daily_schedule))

\* a plan of one day with three pieces of more than one category was drawn
\* against a history with a record
C16_Witness ==
    /\ CalendarCalled
    /\ Returned
    /\ history # <<>>
    /\ last.days = 1
    /\ last.content_per_day = 3
    /\ Cardinality(DOMAIN last.result.category_rotation.category_distribution)
          > 1

-----------------------------------------------------------------------------
(* C17: no rule, no similarity *)

TitleRuleFires ==
    \E i \in RecentRecords(30) :
        FracGE(calculate_topic_similarity(last.title, history[i].title),
               title_threshold)

TopicRuleFires ==
    \E i \in RecentRecords(30) :
        FracGE(calculate_topic_similarity(last.topic, history[i].topic),
               similarity_threshold)

CategoryRuleFires ==
    /\ Truthy(last.category)
    /\ \/ \E i \in RecentRecords(3) : history[i].category = last.category
       \/ Cardinality({i \in RecentRecords(30) :
                          history[i].category = last.category}) > 2

KeywordRuleFires ==
    \E k \in KeywordSet(last.topic) :
        Cardinality({i \in RecentRecords(30) :
                        k \in Range(history[i].topic_keywords)}) > 2

\* C17: check_similarity(title, topic, category) returns is_similar == false
\* whenever none of the four rules fires: no history title reaches the
\* title threshold, no history topic reaches the topic threshold, the
\* category is not repetitive, and no keyword of the candidate topic occurs
\* in more than 2 history records' cached keyword sets.
C17_NoRuleNoSimilarity ==
    (/\ CheckCalled
     /\ ~TitleRuleFires
     /\ ~TopicRuleFires
     /\ ~CategoryRuleFires
     /\ ~KeywordRuleFires) => ~last.result.is_similar

\* a candidate sharing no keyword with a one-record history of a different,
\* older category was judged not similar
C17_Witness ==
    /\ CheckCalled
    /\ Len(history) = 1
    /\ history[1].age > 3 /\ history[1].age <= 30
    /\ Truthy(last.category)
    /\ history[1].category # last.category
    /\ KeywordSet(last.topic) \cap Range(history[1].topic_keywords) = {}
    /\ KeywordSet(last.title) \cap KeywordSet(history[1].title) = {}
    /\ ~last.result.is_similar

-----------------------------------------------------------------------------
(* AutoContentPipeline.run (auto_content_pipeline.py), as the auto_generate *)
(* command calls it.  The content generator, the blog duplicate check, the  *)
(* video service and the blog are outside the model: every outcome they can *)
(* have is a possible result of the step that uses them.                    *)

\* content packages the generator can hand back; None stands for a blog_post
\* without a 'category' key
PipelinePackages ==
    {Package(WarmLemonWater, "Nutrition"),
     Package(HerbalTea, "Nutrition"),
     Package(StayHydrated, "Immune System"),
     Package(EveningWalk, None)}

\* every result the attempt loop can end with: an attempt succeeds with a
\* package the detector does not find similar (and the blog does not hold);
\* any attempt can be rejected or fail
_generate_content_with_fallbacks(max_attempts) ==
    LET category_of(p) == IF p.category = None THEN "Unknown" ELSE p.category
        accepted ==
            {p \in PipelinePackages :
                ~check_content_similarity(p.title, p.title,
                                          category_of(p)).is_similar}
    IN  {[success |-> TRUE, data |-> p, attempt |-> attempt] :
            p \in accepted, attempt \in 1..max_attempts}
        \cup {[success |-> FALSE, attempts |-> max_attempts]}

Failure(error) == [success |-> FALSE, error |-> error]

\* the returns of run after a package was accepted: the result and whether
\* a GeneratedContent record was created on the way
run_after_generation(test_mode, content_data) ==
    IF content_data.category = None
    THEN {[result |-> Failure("Missing category in blog_post data"),
           tracked |-> FALSE]}
    ELSE {[result |-> Failure("No video prompt found in content data"),
           tracked |-> FALSE]}
         \cup
         IF test_mode
         THEN {[result |-> [success |-> TRUE, test_mode |-> TRUE,
                            content_data |-> content_data],
                tracked |-> FALSE]}
         ELSE {[result |-> Failure(error), tracked |-> FALSE] :
                 error \in {"Video generation failed",
                            "Video generation failed or timed out",
                            "Failed to download/upload video",
                            "Blog post creation failed"}}
              \cup
              \* Step 7: an exception of track_generated_content is caught
              {[result |-> [success |-> TRUE, test_mode |-> FALSE,
                            content_data |-> content_data],
                tracked |-> tracked] : tracked \in BOOLEAN}

run(test_mode) ==
    UNION {IF content_result.success
           THEN run_after_generation(test_mode, content_result.data)
           ELSE {[result |-> Failure("Content generation failed"),
                  tracked |-> FALSE]} :
           content_result \in _generate_content_with_fallbacks(5)}

Run(test_mode) ==
    /\ Len(history) < MaxHist
    /\ \E outcome \in run(test_mode) :
          /\ history' =
                IF outcome.tracked
                THEN Append(history,
                            GeneratedContent_create(
                                outcome.result.content_data))
                ELSE history
          /\ last' = [op |-> "run", test_mode |-> test_mode,
                      result |-> outcome.result,
                      tracked |-> outcome.tracked]
    /\ UNCHANGED <<topicA, topicB>>

NextPipeline ==
    \/ \E test_mode \in BOOLEAN : Run(test_mode)
    \/ \E d \in TickDays : Tick(d)

SpecPipeline == InitHistory /\ [][NextPipeline]_vars

-----------------------------------------------------------------------------
(* C18: tracking in test mode *)

RunCalled == last.op = "run"

\* C18: a pipeline run in test mode that returns success has tracked the
\* generated content for diversity analysis: a GeneratedContent record for
\* that package exists in the history afterwards.
C18_TestRunTracksContent ==
    (RunCalled /\ last.test_mode /\ last.result.success) =>
        \E i \in 1..Len(history) :
            /\ history[i].title = last.result.content_data.title
            /\ history[i].category = last.result.content_data.category

-----------------------------------------------------------------------------
(* C19, C20: the similarity filter and the confidence of a selection *)

\* the candidate topics of the resolved category and difficulty
CandidateTopicsOf(category, difficulty) ==
    IF get_topics_by_category(category, difficulty) # <<>>
    THEN Range(get_topics_by_category(category, difficulty))
    ELSE Range(get_topics_by_category(category, None))

\* C19: for select with exclude_recent=true, if at least one candidate topic
\* of the resolved category (and difficulty) has similarity < 0.4 to every
\* history topic of the last 30 days, then the returned topic has
\* similarity < 0.4 to every history topic of the last 30 days.
C19_FilterKeepsDissimilarTopic ==
    (/\ SelectCalled
     /\ Returned
     /\ last.exclude_recent
     /\ \E topic \in CandidateTopicsOf(last.result.category, last.difficulty) :
           ~TooSimilarToHistory(topic))
        => ~TooSimilarToHistory(last.result.topic)

\* one candidate of the bucket was too similar to the history, another was
\* not and was returned
C19_Witness ==
    /\ SelectCalled
    /\ Returned
    /\ last.exclude_recent
    /\ \E topic \in CandidateTopicsOf(last.result.category, last.difficulty) :
          TooSimilarToHistory(topic)
    /\ last.result.topic
          \in CandidateTopicsOf(last.result.category, last.difficulty)
    /\ ~TooSimilarToHistory(last.result.topic)

-----------------------------------------------------------------------------
(* SmartTopicSelector.get_topic_suggestions (smart_selector.py) *)

MaxCount == 2  \* largest number of suggestions asked for

\* suggestions.sort(key=confidence, reverse=True): stable insertion of x
RECURSIVE InsertByConfidence(_, _)
InsertByConfidence(x, sorted) ==
    IF sorted = <<>> THEN <<x>>
    ELSE IF FracGE(Head(sorted).confidence, x.confidence)
         THEN <<Head(sorted)>> \o InsertByConfidence(x, Tail(sorted))
         ELSE <<x>> \o sorted

RECURSIVE SortByConfidence(_)
SortByConfidence(seq) ==
    IF seq = <<>> THEN <<>>
    ELSE InsertByConfidence(seq[Len(seq)],
                            SortByConfidence(SubSeq(seq, 1, Len(seq) - 1)))

\* one pass of the loop body from a loop state [suggestions, used, draws]:
\* every state the two random draws can lead to; preferred_categories is
\* <<>> for None
suggestion_draw(state, count, preferred_categories) ==
    IF "raised" \in DOMAIN state \/ Len(state.suggestions) >= count
    THEN {state}
    ELSE LET categories ==
                 IF preferred_categories # <<>>
                 THEN Range(preferred_categories)
                 ELSE _select_diverse_category(TRUE)
             drawn == [state EXCEPT !.draws = @ + 1]
         IN  UNION {
               IF category \in Exceptions THEN {[raised |-> category]}
               ELSE IF get_topics_by_category(category, None) = <<>>
               THEN {drawn}
               ELSE {IF <<topic, category>> \in state.used THEN drawn
                     ELSE IF is_topic_too_similar(topic, similarity_threshold)
                     THEN [drawn EXCEPT
                             !.used = @ \cup {<<topic, category>>}]
                     ELSE [drawn EXCEPT
                             !.used = @ \cup {<<topic, category>>},
                             !.suggestions = Append(@,
                                [topic |-> topic,
                                 category |-> category,
                                 difficulty |->
                                    _determine_difficulty_level(topic,
                                                                category),
                                 confidence |->
                                    _calculate_selection_confidence(
                                        topic, category)])] :
                     topic \in Range(get_topics_by_category(category, None))} :
               category \in categories}

\* the loop over range(count * 2)
RECURSIVE suggestion_loop(_, _, _, _)
suggestion_loop(states, passes, count, preferred_categories) ==
    IF passes <= 0 THEN states
    ELSE suggestion_loop(
             UNION {suggestion_draw(state, count, preferred_categories) :
                       state \in states},
             passes - 1, count, preferred_categories)

\* every outcome of get_topic_suggestions: the returned list and the number
\* of draws made on the way
get_topic_suggestions(count, preferred_categories) ==
    {IF "raised" \in DOMAIN state THEN state
     ELSE LET sorted == SortByConfidence(state.suggestions)
          IN  [suggestions |->
                  SubSeq(sorted, 1,
                         IF Len(sorted) < count THEN Len(sorted) ELSE count),
               draws |-> state.draws] :
     state \in suggestion_loop({[suggestions |-> <<>>, used |-> {},
                                 draws |-> 0]},
                               count * 2, count, preferred_categories)}

GetTopicSuggestions(count, preferred_categories) ==
    /\ last = NoCall
    /\ \E outcome \in get_topic_suggestions(count, preferred_categories) :
          last' = [op |-> "get_topic_suggestions",
                   count |-> count,
                   preferred_categories |-> preferred_categories,
                   draws |-> IF "raised" \in DOMAIN outcome THEN 0
                             ELSE outcome.draws,
                   result |-> IF "raised" \in DOMAIN outcome THEN outcome
                              ELSE [suggestions |-> outcome.suggestions]]
    /\ UNCHANGED <<history, topicA, topicB>>

NextSuggest ==
    \/ \E p \in CalendarPackages : TrackPlanned(p)
    \/ \E d \in TickDays : Tick(d)
    \/ \E count \in 0..MaxCount,
          preferred_categories \in
              {<<>>, <<"Nutrition">>, <<"Fitness", "Gardening">>} :
          GetTopicSuggestions(count, preferred_categories)

SpecSuggest == InitHistory /\ [][NextSuggest]_vars

-----------------------------------------------------------------------------
(* C21: topic suggestions *)

SuggestCalled == last.op = "get_topic_suggestions"

\* C21: suggest(count, preferred_categories) makes at most 2*count draws
\* and returns at most count candidates, no two of which share the same
\* (topic, category) pair, none of which is too similar to history
\* (similarity >= 0.4 to a record of the last 30 days), ordered by
\* non-increasing confidence.
C21_Suggestions ==
    SuggestCalled =>
        /\ "raised" \notin DOMAIN last.result
        /\ last.draws <= 2 * last.count
        /\ Len(last.result.suggestions) <= last.count
        /\ \A i, j \in 1..Len(last.result.suggestions) :
              (i # j) =>
                  <<last.result.suggestions[i].topic, last.result.suggestions[i].category>>
                      # <<last.result.suggestions[j].topic, last.result.suggestions[j].category>>
        /\ \A i \in 1..Len(last.result.suggestions) :
              ~TooSimilarToHistory(last.result.suggestions[i].topic)
        /\ \A i \in 1..Len(last.result.suggestions) - 1 :
              FracGE(last.result.suggestions[i].confidence, last.result.suggestions[i + 1].confidence)

\* two suggestions came back after a draw of a topic too similar to the
\* history had been rejected
C21_Witness ==
    /\ SuggestCalled
    /\ last.count = 2
    /\ Len(last.result.suggestions) = 2
    /\ last.draws > 2
    /\ \E topic \in CatalogTopics(last.result.suggestions[1].category) :
          TooSimilarToHistory(topic)

-----------------------------------------------------------------------------
(* TopicBank.get_diverse_topics (topic_bank.py) *)

MaxDiverseCount == 4  \* largest number of diverse topics asked for

\* self.categories: the keys of TOPIC_DATABASE in their order
categories == <<"Nutrition", "Fitness", "Immune System">>

all_categories_available(exclude_categories) == categories

\* available_categories, with the fallback to every category
available_categories(exclude_categories) ==
    LET available == SelectSeq(categories,
                         LAMBDA cat : cat \notin Range(exclude_categories))
    IN  IF available = <<>> THEN categories ELSE available

\* the condition of the while loop, on the running call kept in last
diverse_loop_running ==
    /\ last.op = "get_diverse_topics"
    /\ ~last.returned
    /\ Len(last.diverse_topics) < last.count
    /\ Cardinality(last.used_combinations)
           < Len(available_categories(last.exclude_categories))
               * Len(difficulty_levels)

\* the call starts: the loop state is empty
GetDiverseTopics(count, exclude_categories) ==
    /\ last = NoCall
    /\ last' = [op |-> "get_diverse_topics",
                count |-> count,
                exclude_categories |-> exclude_categories,
                diverse_topics |-> <<>>,
                used_combinations |-> {},
                returned |-> FALSE]
    /\ UNCHANGED <<history, topicA, topicB>>

\* one pass of the loop body in which random.choice gave (category,
\* difficulty); a combination drawn before leaves the loop state as it is
DrawCombination(category, difficulty) ==
    /\ diverse_loop_running
    /\ category \in Range(available_categories(last.exclude_categories))
    /\ LET combination == <<category, difficulty>>
           topics == get_topics_by_category(category, difficulty)
       IN  IF combination \in last.used_combinations
           THEN last' = last
           ELSE IF topics = <<>>
           THEN last' = [last EXCEPT
                           !.used_combinations = @ \cup {combination}]
           ELSE \E topic \in Range(topics) :
                  last' = [last EXCEPT
                             !.used_combinations = @ \cup {combination},
                             !.diverse_topics = Append(@,
                                 [topic |-> topic,
                                  category |-> category,
                                  difficulty |-> difficulty])]
    /\ UNCHANGED <<history, topicA, topicB>>

\* the loop condition is false: return diverse_topics
ReturnDiverseTopics ==
    /\ last.op = "get_diverse_topics"
    /\ ~last.returned
    /\ ~diverse_loop_running
    /\ last' = [last EXCEPT !.returned = TRUE]
    /\ UNCHANGED <<history, topicA, topicB>>

NextDiverse ==
    \/ \E count \in 0..MaxDiverseCount,
          exclude_categories \in
              {<<>>, <<"Nutrition">>, <<"Nutrition", "Fitness">>,
               <<"Fitness", "Immune System", "Nutrition">>} :
          GetDiverseTopics(count, exclude_categories)
    \/ \E category \in Range(categories),
          difficulty \in Range(difficulty_levels) :
          DrawCombination(category, difficulty)
    \/ ReturnDiverseTopics

\* fair random draws: a combination that random.choice can give and that
\* would change the loop state is eventually drawn
SpecDiverse ==
    /\ InitHistory
    /\ [][NextDiverse]_vars
    /\ \A category \in Range(categories),
          difficulty \in Range(difficulty_levels) :
          WF_vars(DrawCombination(category, difficulty))
    /\ WF_vars(ReturnDiverseTopics)

-----------------------------------------------------------------------------
(* C22: diverse sample *)

DiverseReturned == last.op = "get_diverse_topics" /\ last.returned

\* C22: diverse_sample(count, exclude_categories) terminates for every
\* count and every exclusion set (under fair random draws), returning at
\* most count entries whose (category, difficulty) pairs are pairwise
\* distinct and whose categories are not excluded unless every category is
\* excluded.
C22_DiverseSample ==
    /\ (last.op = "get_diverse_topics") ~> DiverseReturned
    /\ [](DiverseReturned =>
            /\ Len(last.diverse_topics) <= last.count
            /\ \A i, j \in 1..Len(last.diverse_topics) :
                  (i # j) =>
                      <<last.diverse_topics[i].category,
                        last.diverse_topics[i].difficulty>>
                          # <<last.diverse_topics[j].category,
                              last.diverse_topics[j].difficulty>>
            /\ \A i \in 1..Len(last.diverse_topics) :
                  \/ last.diverse_topics[i].category
                         \notin Range(last.exclude_categories)
                  \/ Range(categories) \subseteq
                         Range(last.exclude_categories))

\* a call that asked for more topics than the categories left by the
\* exclusion have combinations returned, every combination used
C22_Witness ==
    /\ DiverseReturned
    /\ last.exclude_categories = <<"Nutrition", "Fitness">>
    /\ last.count = 4
    /\ Len(last.diverse_topics) = 3

-----------------------------------------------------------------------------
(* ContentCalendar._generate_content_piece, one slot of a plan *)

GenerateContentPiece(index) ==
    /\ last = NoCall
    /\ \E piece \in _generate_content_piece(index) :
          last' = [op |-> "_generate_content_piece",
                   index |-> index,
                   result |-> piece]
    /\ UNCHANGED <<history, topicA, topicB>>

NextPiece ==
    \/ \E p \in CalendarPackages : TrackPlanned(p)
    \/ \E d \in TickDays : Tick(d)
    \/ \E index \in 0..MaxPieces - 1 : GenerateContentPiece(index)

SpecPiece == InitHistory /\ [][NextPiece]_vars

-----------------------------------------------------------------------------
(* C23: a slot and the selection it came from *)

PieceCalled == last.op = "_generate_content_piece" /\ Returned

\* C23: every slot of a plan produced by generate carries the topic,
\* category, difficulty and confidence of one single select result: the
\* slot's topic is the topic that select returned for that slot, the one
\* its confidence was computed for.
C23_SlotIsOneSelection ==
    PieceCalled =>
        [topic |-> last.result.topic,
         category |-> last.result.category,
         difficulty |-> last.result.difficulty,
         confidence |-> last.result.confidence]
            \in select_optimal_topic(None, None, TRUE)

-----------------------------------------------------------------------------
(* ContentCalendar.optimize_calendar_diversity (content_calendar.py) *)

pieces_in_reverse(content_pieces) ==
    [i \in 1..Len(content_pieces) |->
        content_pieces[Len(content_pieces) + 1 - i]]

\* sorted(content_pieces, key=diversity_score, reverse=True)
_optimize_daily_diversity(content_pieces) ==
    IF Len(content_pieces) <= 1 THEN content_pieces
    ELSE SortByDiversity(content_pieces)

\* calendar.copy() is a shallow copy: the list daily_schedule and the day
\* dictionaries in it are shared with the argument, so the assignment to
\* day['content_pieces'] shows in both, while the two recalculated entries
\* are set on the copy only. The operator gives the argument as it is after
\* the call and the returned calendar.
optimize_calendar_diversity(calendar) ==
    LET daily_schedule ==
            [i \in 1..Len(calendar.daily_schedule) |->
                [calendar.daily_schedule[i] EXCEPT
                    !.content_pieces = _optimize_daily_diversity(@)]]
    IN  [calendar |-> [calendar EXCEPT !.daily_schedule = daily_schedule],
         result |->
            [calendar EXCEPT
                !.daily_schedule = daily_schedule,
                !.category_rotation =
                    _analyze_category_rotation(daily_schedule),
                !.diversity_metrics =
                    _calculate_calendar_diversity(daily_schedule)]]

\* optimize a calendar that generate_content_calendar produced
OptimizeCalendarDiversity(days, content_per_day) ==
    /\ last = NoCall
    /\ days * content_per_day <= MaxPieces
    /\ \E calendar \in generate_content_calendar(days, content_per_day) :
          /\ "raised" \notin DOMAIN calendar
          /\ LET outcome == optimize_calendar_diversity(calendar)
             IN  last' = [op |-> "optimize_calendar_diversity",
                          calendar_before |-> calendar,
                          calendar |-> outcome.calendar,
                          result |-> outcome.result]
    /\ UNCHANGED <<history, topicA, topicB>>

NextOptimize ==
    \/ TrackPlanned(Package(StrengthTraining, "Fitness"))
    \/ \E days \in 1..MaxPieces, content_per_day \in 1..MaxPieces :
          OptimizeCalendarDiversity(days, content_per_day)

SpecOptimize == InitHistory /\ [][NextOptimize]_vars

-----------------------------------------------------------------------------
(* C24, C30: optimizing a plan *)

OptimizeCalled == last.op = "optimize_calendar_diversity"

DiversityScores(calendar) ==
    {piece.diversity_score : piece \in Range(AllPieces(calendar.daily_schedule))}

\* the pieces of one day that carry the given score, in their order
PiecesScored(day, score) ==
    SelectSeq(day.content_pieces, LAMBDA piece : piece.diversity_score = score)

\* C24: optimize(plan) returns a plan in which each day holds the same
\* multiset of pieces as before, ordered by non-increasing per-piece
\* diversity score with pieces of equal score kept in their original
\* relative order, and no piece moves to another day; applying optimize
\* twice gives the same plan as applying it once.
C24_OptimizeOrdersEachDay ==
    OptimizeCalled =>
        LET before == last.calendar_before.daily_schedule
            after == last.result.daily_schedule
        IN  /\ Len(after) = Len(before)
            /\ \A d \in 1..Len(before) :
                  /\ after[d].date = before[d].date
                  /\ Len(after[d].content_pieces)
                        = Len(before[d].content_pieces)
                  /\ \A score \in DiversityScores(last.calendar_before)
                                  \cup DiversityScores(last.result) :
                        PiecesScored(after[d], score)
                            = PiecesScored(before[d], score)
                  /\ \A i \in 1..Len(after[d].content_pieces) - 1 :
                        FracGE(after[d].content_pieces[i].diversity_score,
                               after[d].content_pieces[i + 1].diversity_score)
            /\ optimize_calendar_diversity(last.result).result = last.result

\* a day of three pieces was reordered, two of them with the same score
C24_Witness ==
    /\ OptimizeCalled
    /\ last.result.daily_schedule # last.calendar_before.daily_schedule
    /\ \E d \in 1..Len(last.result.daily_schedule) :
          LET content_pieces == last.result.daily_schedule[d].content_pieces
          IN  /\ Len(content_pieces) = 3
              /\ content_pieces[1] # content_pieces[2]
              /\ content_pieces[1].diversity_score
                    = content_pieces[2].diversity_score
              /\ content_pieces[3].diversity_score
                    # content_pieces[2].diversity_score

\* C30: optimize(plan) leaves its argument unchanged: after the call the
\* input plan's daily_schedule (the order of pieces in every day),
\* category_rotation and diversity_metrics are the same as before the call,
\* and only the returned plan is reordered.
C30_OptimizeLeavesArgument ==
    OptimizeCalled => last.calendar = last.calendar_before

-----------------------------------------------------------------------------
(* select_optimal_topic while another process appends a record:
   the call reads the history table once per step (category exclusion,
   similarity filter, confidence), each read a query of its own *)

\* the call starts; possible is what it could return on the history as it
\* is now
SelectBegin(preferred_category, difficulty) ==
    /\ last = NoCall
    /\ last' = [op |-> "select_optimal_topic running",
                preferred_category |-> preferred_category,
                difficulty |-> difficulty,
                pc |-> "category",
                possible |-> select_optimal_topic(preferred_category,
                                                  difficulty, TRUE)]
    /\ UNCHANGED <<history, topicA, topicB>>

\* the next step of the running call, each on the history as it is when the
\* step runs: Step 1 picks the category, Steps 2 to 4 filter and pick the
\* topic, Steps 5 and 6 give difficulty and confidence
SelectStep ==
    /\ last.op = "select_optimal_topic running"
    /\ \/ /\ last.pc = "category"
          /\ \E category \in
                  IF Truthy(last.preferred_category)
                  THEN {last.preferred_category}
                  ELSE _select_diverse_category(TRUE) :
                last' = IF category \in Exceptions
                        THEN [last EXCEPT !.pc = "raised"]
                        ELSE [pc |-> "topic", category |-> category] @@ last
       \/ /\ last.pc = "topic"
          /\ \E selected_topic \in
                  selectable_topics(last.category, last.difficulty, TRUE) :
                last' = [pc |-> "confidence", topic |-> selected_topic]
                            @@ last
       \/ /\ last.pc = "confidence"
          /\ last' =
                [pc |-> "done",
                 result |->
                    [topic |-> last.topic,
                     category |-> last.category,
                     difficulty |->
                        _determine_difficulty_level(last.topic,
                                                    last.category),
                     confidence |->
                        _calculate_selection_confidence(last.topic,
                                                        last.category)]]
                    @@ last
    /\ UNCHANGED <<history, topicA, topicB>>

\* another process creates a record, before the call or between two of its
\* steps
AppendConcurrently(p) ==
    /\ Len(history) < MaxCalendarHist
    /\ IF last = NoCall THEN TRUE
       ELSE last.op = "select_optimal_topic running"
               /\ last.pc \notin {"done", "raised"}
    /\ history' = Append(history, GeneratedContent_create(p))
    /\ UNCHANGED <<last, topicA, topicB>>

NextConcurrent ==
    \/ \E preferred_category \in {None, "Nutrition", "Fitness"},
          difficulty \in {None, "beginner", "advanced"} :
          SelectBegin(preferred_category, difficulty)
    \/ SelectStep
    \/ \E p \in CalendarPackages : AppendConcurrently(p)

SpecConcurrent == InitHistory /\ [][NextConcurrent]_vars

-----------------------------------------------------------------------------
(* C25: a record appended during select *)

\* C25: if a ContentRecord is appended by another process while select(...)
\* is executing, the result is still one that select could have produced
\* against a single history snapshot (taken either before or after the
\* append): the category exclusion, the similarity filter and the
\* confidence are all computed from the same set of records, so a topic
\* kept by the >= 0.4 similarity filter never carries the -0.3 similarity
\* penalty.
C25_ResultOfOneSnapshot ==
    (last.op = "select_optimal_topic running" /\ last.pc = "done") =>
        \/ last.result \in last.possible
        \/ last.result \in select_optimal_topic(last.preferred_category,
                                                 last.difficulty, TRUE)

-----------------------------------------------------------------------------
(* AutoContentPipeline._generate_content_with_fallbacks, attempt by attempt
   (auto_content_pipeline.py) *)

MaxAttempts == 2  \* largest max_attempts

\* the first entries of the two fallback lists
fallback_topics == <<"Energy Boost", "Sleep Better">>

fallback_categories == <<"Health", "Wellness">>

fallbacks_only(original, fallbacks) == fallbacks

\* topics_to_try and categories_to_try: the original first if given, then
\* the fallbacks, duplicates removed keeping the first occurrence
values_to_try(original, fallbacks) ==
    IF Truthy(original)
    THEN <<original>> \o SelectSeq(fallbacks, LAMBDA x : x # original)
    ELSE fallbacks

\* every way the loop can go from the given attempt on: the calls made so
\* far (what the generator was asked and how the attempt ended) and the
\* final result. The generator fails, returns invalid data, raises, or
\* returns a package; the blog may or may not hold a post for its title.
RECURSIVE content_attempts(_, _, _, _, _)
content_attempts(original_topic, original_category, max_attempts, attempt, calls) ==
    IF attempt >= max_attempts
    THEN {[calls |-> calls,
           result |-> [success |-> FALSE, attempts |-> max_attempts]]}
    ELSE LET topics_to_try == values_to_try(original_topic, fallback_topics)
             categories_to_try ==
                 values_to_try(original_category, fallback_categories)
             current_topics ==
                 IF attempt < Len(topics_to_try)
                 THEN {topics_to_try[attempt + 1]}
                 ELSE Range(fallback_topics)
             current_categories ==
                 IF attempt < Len(categories_to_try)
                 THEN {categories_to_try[attempt + 1]}
                 ELSE Range(fallback_categories)
             category_of(p) ==
                 IF p.category = None THEN "Unknown" ELSE p.category
             call(topic, category, outcome, data) ==
                 Append(calls, [topic |-> topic, category |-> category,
                                outcome |-> outcome] @@ data)
             continue(topic, category, outcome, data) ==
                 content_attempts(original_topic, original_category,
                                  max_attempts, attempt + 1,
                                  call(topic, category, outcome, data))
         IN  UNION {
               UNION {continue(topic, category, outcome, <<>>) :
                         outcome \in {"failed", "invalid", "raised"}}
               \cup
               UNION {
                 IF check_content_similarity(p.title, p.title,
                                             category_of(p)).is_similar
                 THEN continue(topic, category, "similar", [data |-> p])
                 ELSE continue(topic, category, "duplicate",
                               [data |-> p])
                      \cup
                      {[calls |-> call(topic, category, "accepted",
                                       [data |-> p]),
                        result |-> [success |-> TRUE,
                                    data |-> p,
                                    attempt |-> attempt + 1,
                                    topic_used |-> topic,
                                    category_used |-> category]]} :
                 p \in PipelinePackages} :
               topic \in current_topics, category \in current_categories}

GenerateContentWithFallbacks(original_topic, original_category, max_attempts) ==
    /\ last = NoCall
    /\ \E outcome \in content_attempts(original_topic, original_category,
                                        max_attempts, 0, <<>>) :
          last' = [op |-> "_generate_content_with_fallbacks",
                   original_topic |-> original_topic,
                   original_category |-> original_category,
                   max_attempts |-> max_attempts,
                   calls |-> outcome.calls,
                   result |-> outcome.result]
    /\ UNCHANGED <<history, topicA, topicB>>

NextFallbacks ==
    \/ \E p \in CalendarPackages : TrackPlanned(p)
    \/ Tick(MaxAge)
    \/ \E original_topic \in {None, "Sleep Better", "Morning stretches"},
          original_category \in {None, "Sleep"},
          max_attempts \in 0..MaxAttempts :
          GenerateContentWithFallbacks(original_topic, original_category,
                                       max_attempts)

SpecFallbacks == InitHistory /\ [][NextFallbacks]_vars

-----------------------------------------------------------------------------
(* C26: the attempt loop *)

FallbacksCalled == last.op = "_generate_content_with_fallbacks"

Rejected(call) ==
    call.outcome \in {"failed", "invalid", "raised", "similar", "duplicate"}

\* C26: _generate_content_with_fallbacks(topic, category, max_attempts)
\* calls the content generator at most max_attempts times, trying the
\* caller's topic and category on the first attempt when given; it returns
\* success only for a package whose title was judged not similar by
\* check_content_similarity and not a duplicate by check_duplicate_post in
\* that same attempt, and returns failure once every attempt was rejected
\* or raised.
C26_AttemptLoop ==
    FallbacksCalled =>
        LET calls == last.calls
        IN  /\ Len(calls) <= last.max_attempts
            /\ (Len(calls) >= 1 /\ Truthy(last.original_topic)) =>
                    calls[1].topic = last.original_topic
            /\ (Len(calls) >= 1 /\ Truthy(last.original_category)) =>
                    calls[1].category = last.original_category
            /\ \A i \in 1..Len(calls) - 1 : Rejected(calls[i])
            /\ last.result.success =>
                    /\ Len(calls) = last.result.attempt
                    /\ calls[Len(calls)].outcome = "accepted"
                    /\ calls[Len(calls)].data = last.result.data
                    /\ ~check_content_similarity(
                            last.result.data.title, last.result.data.title,
                            IF last.result.data.category = None
                            THEN "Unknown"
                            ELSE last.result.data.category).is_similar
            /\ ~last.result.success =>
                    /\ Len(calls) = last.max_attempts
                    /\ \A i \in 1..Len(calls) : Rejected(calls[i])

\* the second attempt succeeded, with a fallback topic, after the caller's
\* topic and category had been tried and the package found similar
C26_Witness ==
    /\ FallbacksCalled
    /\ last.original_topic = "Morning stretches"
    /\ last.original_category = "Sleep"
    /\ last.result.success
    /\ last.result.attempt = 2
    /\ last.calls[1].outcome = "similar"
    /\ last.result.topic_used = "Energy Boost"

-----------------------------------------------------------------------------
(* C27: a run and its GeneratedContent record *)

\* C27: a non-test pipeline run that returns success has created exactly one
\* GeneratedContent record for its package, created only after the video
\* completed and the blog post was created; a run that returns failure has
\* created no GeneratedContent record.
C27_RecordIffRunSucceeds ==
    (RunCalled /\ ~last.test_mode) =>
        /\ last.result.success =>
              /\ last.tracked
              /\ history # <<>>
              /\ history[Len(history)]
                    = GeneratedContent_create(last.result.content_data)
        /\ ~last.result.success => ~last.tracked

-----------------------------------------------------------------------------
(* pipeline runs one after another, three days or a long time apart *)

NextSequential ==
    \/ Run(FALSE)
    \/ Tick(3)
    \/ Tick(MaxAge)

SpecSequential == InitHistory /\ [][NextSequential]_vars

-----------------------------------------------------------------------------
(* C28: category spacing of the records the pipeline creates *)

\* C28: in a history built from empty only by pipeline runs executed one
\* after another, each of which tracks the package it accepted, no two
\* records with the same non-empty category have generated_at timestamps
\* within 3 days of each other. (Ages are capped at MaxAge, so only records
\* younger than that are compared.)
C28_CategorySpacing ==
    \A i, j \in 1..Len(history) :
        (/\ i < j
         /\ history[i].category = history[j].category
         /\ Truthy(history[i].category)
         /\ history[i].age < MaxAge) =>
            history[i].age - history[j].age > 3

\* two records of one category, created six days apart
C28_Witness ==
    \E i, j \in 1..Len(history) :
        /\ i < j
        /\ history[i].category = history[j].category
        /\ Truthy(history[i].category)
        /\ history[i].age - history[j].age = 6
        /\ history[i].age < MaxAge

-----------------------------------------------------------------------------
(* select_optimal_topic asked for one bucket of the catalog *)

NextBucket ==
    \/ \E p \in CalendarPackages : TrackPlanned(p)
    \/ \E d \in TickDays : Tick(d)
    \/ \E preferred_category \in DOMAIN TOPIC_DATABASE,
          difficulty \in Range(difficulty_levels),
          exclude_recent \in BOOLEAN :
          SelectOptimalTopic(preferred_category, difficulty, exclude_recent)

SpecBucket == InitHistory /\ [][NextBucket]_vars

-----------------------------------------------------------------------------
(* C29: the result of a selection by category and difficulty *)

\* C29: for select(preferred_category=c, difficulty=d) where c is a catalog
\* category and d one of beginner, intermediate, advanced (so the bucket
\* (c, d) is non-empty), the returned candidate's topic is a member of
\* bucket (c, d) and its difficulty field equals d.
C29_ResultFromBucket ==
    (/\ SelectCalled
     /\ last.preferred_category \in DOMAIN TOPIC_DATABASE
     /\ last.difficulty \in Range(difficulty_levels)) =>
        /\ Returned
        /\ last.result.topic \in
              Range(TOPIC_DATABASE[last.preferred_category][last.difficulty])
        /\ last.result.difficulty = last.difficulty

=============================================================================
